---- MODULE Spec2Model ----
(***************************************************************************)
(* bfinder: top-N largest files by a level-synchronised parallel scan.     *)
(* Model of src/src/main.rs: FileEntry ordering, TopNHeap, scan_directory, *)
(* classify_entry, parallel_scan, merge_heaps and the tail of main.        *)
(*                                                                         *)
(* Paths are sequences of name components; a component is a natural number *)
(* standing for a file name, numbered in the byte order of the names       *)
(* ("a" = 1, "b" = 2, "1.txt" = 1, "2.txt" = 2, "3.txt" = 3, ...).          *)
(* std::collections::BinaryHeap is modelled by its documented contract:    *)
(* push adds, pop removes the greatest item, into_iter yields the items in *)
(* an arbitrary order.                                                     *)
(***************************************************************************)
EXTENDS Integers, Sequences, FiniteSets

\* Largest value of the -n/--top argument explored (capacity ranges over
\* 0..MaxCapacity).
MaxCapacity == 3
\* Largest rayon pool size explored (threads ranges over 1..MaxThreads).
MaxThreads == 2
\* Largest number of TopNHeap::insert calls made on one heap taken by itself.
MaxInserts == 4

VARIABLES
    fs,            \* the directory tree under the root: path -> node
    read_order,    \* directory -> the order in which read_dir yields its entries
    capacity,      \* cli.top
    threads,       \* size of the rayon pool
    work_queue,    \* directories of the current level
    next_queue,    \* Mutex<Vec<PathBuf>>: directories found for the next level
    task,          \* one map_init item per element of work_queue
    thread_heaps,  \* Mutex<Vec<TopNHeap>>
    global_stats,  \* Mutex<ScanStats>
    results,       \* the ranked list returned by parallel_scan
    pc,            \* "scan" while parallel_scan runs, "exit" once main has
                   \* returned, "abort" once the process has been ended
    exit_code,     \* process exit status, -1 while running
    printed,       \* TRUE once main has written the report to stdout
    round,         \* history: number of the current level, the root being level 1
    scans,         \* history: path -> number of scan_directory calls on it
    deposited,     \* history: directories whose task has returned its results
    discarded,     \* history: entries popped by TopNHeap::insert so far
    inserted,      \* history: the entries given to one heap taken by itself, in call order
    evicted        \* history: for each of those calls, the set of entries it removed

vars == << fs, read_order, capacity, threads, work_queue, next_queue, task, thread_heaps,
           global_stats, results, pc, exit_code, printed, round, scans, deposited,
           discarded, inserted, evicted >>

-----------------------------------------------------------------------------
(* The file system                                                         *)

Root == << >>

\* The paths a tree of the model may populate: /, /a, /b, /a/1.txt,
\* /a/2.txt, /b/3.txt, /b/3.txt/4
Paths == { << >>, <<1>>, <<2>>, <<1, 1>>, <<1, 2>>, <<2, 3>>, <<2, 3, 4>> }

\* st_size values of regular files
Sizes == { 500, 1000 }

Parent(p) == SubSeq(p, 1, Len(p) - 1)

FileName(p) == p[Len(p)]

Children(p) == { q \in Paths : q # Root /\ Parent(q) = p }

\* kind "dir":     a directory that read_dir can list
\* kind "baddir":  a directory (by lstat) whose read_dir fails
\* kind "file":    a regular file of st_size size
\* kind "symlink": a symbolic link; target says what it points to and size is
\*                 the st_size a link-following stat would report
\* kind "staterr": an entry whose statat fails
\* kind "readerr": an entry the read_dir iterator yields as Err
\* kind "nonutf8": an entry whose name is not valid UTF-8
\* kind "absent":  nothing at this path
Node(k, s, t) == [kind |-> k, size |-> s, target |-> t]

Absent == Node("absent", 0, "none")

Present ==
    { Node("dir", 0, "none"), Node("baddir", 0, "none"), Node("staterr", 0, "none"),
      Node("readerr", 0, "none"), Node("nonutf8", 0, "none"),
      Node("symlink", 1000, "file"), Node("symlink", 0, "dir") }
    \cup { Node("file", s, "none") : s \in Sizes }

RootNodes == { Node("dir", 0, "none"), Node("baddir", 0, "none") }

\* What a directory that cannot be listed may hold
Hidden == { Absent, Node("file", 1000, "none"), Node("dir", 0, "none") }

\* What may sit below a node: entries exist only inside directories.
Below(n) ==
    IF n.kind = "dir" THEN Present
    ELSE IF n.kind = "baddir" THEN Hidden
    ELSE { Absent }

MkFs(r, a, b, a1, a2, b3, b34) ==
    [p \in Paths |->
        CASE p = << >>        -> r
          [] p = <<1>>        -> a
          [] p = <<2>>        -> b
          [] p = <<1, 1>>     -> a1
          [] p = <<1, 2>>     -> a2
          [] p = <<2, 3>>     -> b3
          [] p = <<2, 3, 4>>  -> b34]

-----------------------------------------------------------------------------
(* FileEntry and its ordering                                              *)

FileEntry(s, p) == [size |-> s, path |-> p]

\* u64::cmp as -1 (Less), 0 (Equal), 1 (Greater)
IntCmp(x, y) == IF x < y THEN -1 ELSE IF x > y THEN 1 ELSE 0

\* PathBuf::cmp: component-wise lexicographic
RECURSIVE PathCmp(_, _)
PathCmp(p, q) ==
    IF p = << >> /\ q = << >> THEN 0
    ELSE IF p = << >> THEN -1
    ELSE IF q = << >> THEN 1
    ELSE IF Head(p) # Head(q) THEN IntCmp(Head(p), Head(q))
    ELSE PathCmp(Tail(p), Tail(q))

\* impl Ord for FileEntry: self.size.cmp(other.size).then_with(path.cmp)
FileEntryCmp(self, other) ==
    IF IntCmp(self.size, other.size) # 0
    THEN IntCmp(self.size, other.size)
    ELSE PathCmp(self.path, other.path)

-----------------------------------------------------------------------------
(* TopNHeap                                                                *)
(* heap is a BinaryHeap<Reverse<FileEntry>>; its contents are kept as the  *)
(* sequence of the held entries in ascending FileEntryCmp order, so that   *)
(* the greatest Reverse(entry), the one pop removes, is the first.         *)

RECURSIVE HeapPush(_, _)
HeapPush(heap, entry) ==
    IF heap = << >> THEN << entry >>
    ELSE IF FileEntryCmp(entry, Head(heap)) <= 0 THEN << entry >> \o heap
    ELSE << Head(heap) >> \o HeapPush(Tail(heap), entry)

HeapPop(heap) == IF heap = << >> THEN heap ELSE Tail(heap)

\* What TopNHeap::new leaves when BinaryHeap::with_capacity(capacity + 1)
\* cannot allocate: no heap, the process is ended (memory allocation failed,
\* SIGABRT, status 134; or a panic, status 101, for a capacity whose size in
\* bytes overflows or, in a build with overflow checks, for capacity + 1
\* overflowing).
AllocAbort == [heap |-> << >>, capacity |-> 0, abort |-> TRUE]

\* The status of a process ended by the allocator (handle_alloc_error aborts:
\* SIGABRT), and that of one ended by a panic (capacity overflow in
\* with_capacity, capacity + 1 overflowing in a build with overflow checks,
\* println! to a standard output that cannot be written).
AbortCode == 134
PanicCode == 101

\* TopNHeap::new(capacity): with_capacity(capacity + 1) entries.  Whether the
\* allocator grants them is not decided by capacity: it depends on the memory
\* the process already holds (the heaps returned by earlier items stay alive
\* until merge_heaps) and on the limits of the machine, so it is an input,
\* granted.  Without overflow checks capacity + 1 wraps to 0 for the greatest
\* usize, nothing is allocated and the call is granted.
TopNHeapNew(cap, granted) ==
    IF granted THEN [heap |-> << >>, capacity |-> cap] ELSE AllocAbort

\* Variant of Insert: room is made before the push instead of after it
InsertPopFirst(self, entry) ==
    LET room == IF Len(self.heap) >= self.capacity THEN HeapPop(self.heap)
                ELSE self.heap
    IN  [self EXCEPT !.heap = HeapPush(room, entry)]

Insert(self, entry) ==
    LET pushed == HeapPush(self.heap, entry)
    IN  [self EXCEPT !.heap = IF Len(pushed) > self.capacity
                               THEN HeapPop(pushed)
                               ELSE pushed]

\* history: the number of entries Insert(self, entry) pops
Popped(self, entry) == Len(self.heap) + 1 - Len(Insert(self, entry).heap)

\* every ordering of the items of the sequence s
Orderings(s) ==
    LET n == Len(s)
    IN  { [i \in 1..n |-> s[f[i]]] :
            f \in { g \in [1..n -> 1..n] : \A i, j \in 1..n : i # j => g[i] # g[j] } }

\* into_vec: the held entries, in any order
IntoVec(self) == Orderings(self.heap)

-----------------------------------------------------------------------------
(* ScanStats                                                               *)

ScanStatsDefault == [files_scanned |-> 0, dirs_scanned |-> 0, errors |-> 0]

-----------------------------------------------------------------------------
(* classify_entry                                                          *)

RegularFile(s) == [ok |-> TRUE, type |-> "RegularFile", size |-> s]
Directory == [ok |-> TRUE, type |-> "Directory", size |-> 0]
Other == [ok |-> TRUE, type |-> "Other", size |-> 0]
ClassifyErr == [ok |-> FALSE, type |-> "Err", size |-> 0]

\* Variant of StatAt: the query without SYMLINK_NOFOLLOW, which reports the
\* target of a symbolic link
StatAtFollow(parent, name) ==
    LET n == fs[Append(parent, name)]
    IN  CASE n.kind = "file"               -> [ok |-> TRUE, mode |-> "S_IFREG", size |-> n.size]
          [] n.kind \in {"dir", "baddir"}  -> [ok |-> TRUE, mode |-> "S_IFDIR", size |-> 0]
          [] n.kind = "symlink" /\ n.target = "file"
                                           -> [ok |-> TRUE, mode |-> "S_IFREG", size |-> n.size]
          [] n.kind = "symlink" /\ n.target = "dir"
                                           -> [ok |-> TRUE, mode |-> "S_IFDIR", size |-> 0]
          [] OTHER                         -> [ok |-> FALSE, mode |-> "none", size |-> 0]

\* statat(parent_fd, name, SYMLINK_NOFOLLOW): the mode and size of the entry
\* itself; Err when the query fails
StatAt(parent, name) ==
    LET n == fs[Append(parent, name)]
    IN  CASE n.kind = "file"               -> [ok |-> TRUE, mode |-> "S_IFREG", size |-> n.size]
          [] n.kind \in {"dir", "baddir"}  -> [ok |-> TRUE, mode |-> "S_IFDIR", size |-> 0]
          [] n.kind = "symlink"            -> [ok |-> TRUE, mode |-> "S_IFLNK", size |-> 0]
          [] OTHER                         -> [ok |-> FALSE, mode |-> "none", size |-> 0]

ClassifyEntry(parent, name) ==
    LET stat == StatAt(parent, name)
    IN  IF ~stat.ok THEN ClassifyErr
        ELSE IF stat.mode = "S_IFREG" THEN RegularFile(stat.size)
        ELSE IF stat.mode = "S_IFDIR" THEN Directory
        ELSE Other

-----------------------------------------------------------------------------
(* scan_directory                                                          *)

\* fs::read_dir(dir_path) succeeds on a listable directory (and follows a
\* symbolic link to one)
ReadDirOk(dir_path) ==
    \/ fs[dir_path].kind = "dir"
    \/ fs[dir_path].kind = "symlink" /\ fs[dir_path].target = "dir"

\* The present entries S of a directory in the order the file system happens
\* to hand them out: by name, ascending or descending.
RECURSIVE ReadDirFrom(_, _)
ReadDirFrom(S, order) ==
    IF S = {} THEN << >>
    ELSE LET q == CHOOSE x \in S :
                     \A y \in S : IF order = "ascending"
                                  THEN FileName(x) <= FileName(y)
                                  ELSE FileName(y) <= FileName(x)
         IN  << q >> \o ReadDirFrom(S \ {q}, order)

\* The ReadDir iterator ends after the first Err it yields: what follows an
\* entry that fails to read is never handed out.
RECURSIVE UntilErr(_)
UntilErr(raw) ==
    IF raw = << >> THEN << >>
    ELSE IF fs[Head(raw)].kind = "readerr" THEN << Head(raw) >>
    ELSE << Head(raw) >> \o UntilErr(Tail(raw))

\* The items the iterator of fs::read_dir(dir_path) yields (the present
\* entries and their listing are bound once each, as in ScanDirectory)
ReadDir(dir_path) ==
    CHOOSE yielded \in
        { UntilErr(raw) :
            raw \in { ReadDirFrom(present, read_order[dir_path]) :
                        present \in { { q \in Children(dir_path) :
                                           fs[q].kind # "absent" } } } } : TRUE

\* First loop of scan_directory: entries that cannot be read or whose name
\* is not UTF-8 count one error each and are skipped.
RECURSIVE ReadEntries(_, _)
ReadEntries(raw, st) ==
    IF raw = << >> THEN st
    ELSE IF fs[Head(raw)].kind \in {"readerr", "nonutf8"}
         THEN ReadEntries(Tail(raw), [st EXCEPT !.errors = @ + 1])
         ELSE ReadEntries(Tail(raw),
                  [st EXCEPT !.entries =
                      Append(@, [name |-> FileName(Head(raw)), path |-> Head(raw)])])

\* entries.sort_by(|a, b| a.name.cmp(&b.name)): stable insertion into place
RECURSIVE SortedInsert(_, _)
SortedInsert(sorted, e) ==
    IF sorted = << >> THEN << e >>
    ELSE IF IntCmp(e.name, Head(sorted).name) < 0 THEN << e >> \o sorted
    ELSE << Head(sorted) >> \o SortedInsert(Tail(sorted), e)

RECURSIVE SortByName(_)
SortByName(entries) ==
    IF entries = << >> THEN << >>
    ELSE SortedInsert(SortByName(SubSeq(entries, 1, Len(entries) - 1)),
                      entries[Len(entries)])

\* Second loop of scan_directory over the sorted entries.
\* st = [top_n, stats, subdirs, popped]; popped is history.
RECURSIVE ClassifyAll(_, _, _)
ClassifyAll(dir_path, entries, st) ==
    IF entries = << >> THEN st
    ELSE LET entry == Head(entries)
             metadata == ClassifyEntry(dir_path, entry.name)
             next ==
                 IF ~metadata.ok
                 THEN [st EXCEPT !.stats.errors = @ + 1]
                 ELSE IF metadata.type = "RegularFile"
                 THEN [st EXCEPT
                         !.stats.files_scanned = @ + 1,
                         !.top_n = Insert(@, FileEntry(metadata.size, entry.path)),
                         !.popped = @ + Popped(st.top_n, FileEntry(metadata.size, entry.path))]
                 ELSE IF metadata.type = "Directory"
                 THEN [st EXCEPT
                         !.stats.dirs_scanned = @ + 1,
                         !.subdirs = Append(@, entry.path)]
                 ELSE st
         IN  ClassifyAll(dir_path, Tail(entries), next)

\* scan_directory(dir_path, top_n, stats, subdirs) -> io::Result<()>
\* The result carries the updated arguments and ok = FALSE for Err.
\* The listing, the sorted entries and the outcome are each bound through a
\* singleton set, so that every stage is computed once.
ScanDirectory(dir_path, top_n, stats, subdirs) ==
    LET st0 == [top_n |-> top_n, stats |-> stats, subdirs |-> subdirs,
                popped |-> 0, ok |-> TRUE]
    IN  IF ~ReadDirOk(dir_path)
        THEN [st0 EXCEPT !.ok = FALSE]
        ELSE CHOOSE done \in
                UNION { { ClassifyAll(dir_path, sorted,
                                      [st0 EXCEPT !.stats.errors = @ + read.errors]) :
                             sorted \in { SortByName(read.entries) } } :
                        read \in { ReadEntries(raw, [entries |-> << >>, errors |-> 0]) :
                                      raw \in { ReadDir(dir_path) } } } : TRUE

-----------------------------------------------------------------------------
(* merge_heaps                                                             *)

RECURSIVE InsertAll(_, _)
InsertAll(final_heap, vec) ==
    IF vec = << >> THEN final_heap
    ELSE InsertAll(Insert(final_heap, Head(vec)), Tail(vec))

\* The loop over the heaps: every final_heap it can end with, over the
\* orders in which into_vec may yield the entries of each heap.
RECURSIVE MergeInto(_, _)
MergeInto(final_heap, heaps) ==
    IF heaps = << >> THEN { final_heap }
    ELSE UNION { MergeInto(InsertAll(final_heap, vec), Tail(heaps)) :
                    vec \in IntoVec(Head(heaps)) }

\* Variant of ResultCmp: a.size.cmp(b.size), the sizes ascending
ResultCmpAscending(a, b) ==
    IF IntCmp(a.size, b.size) # 0
    THEN IntCmp(a.size, b.size)
    ELSE PathCmp(a.path, b.path)

\* The comparator of the final sort: b.size.cmp(a.size).then_with(a.path.cmp(b.path))
ResultCmp(a, b) ==
    IF IntCmp(b.size, a.size) # 0
    THEN IntCmp(b.size, a.size)
    ELSE PathCmp(a.path, b.path)

RECURSIVE ResultInsert(_, _)
ResultInsert(sorted, e) ==
    IF sorted = << >> THEN << e >>
    ELSE IF ResultCmp(e, Head(sorted)) < 0 THEN << e >> \o sorted
    ELSE << Head(sorted) >> \o ResultInsert(Tail(sorted), e)

\* results.sort_by(...): a stable sort
RECURSIVE SortResults(_)
SortResults(vec) ==
    IF vec = << >> THEN << >>
    ELSE ResultInsert(SortResults(SubSeq(vec, 1, Len(vec) - 1)), vec[Len(vec)])

\* Variant of MergeHeaps: final_heap created inside the loop over the heaps,
\* so that only the last heap reaches the result
MergeHeapsLastOnly(heaps, cap) ==
    UNION { { SortResults(vec) : vec \in IntoVec(final_heap) } :
                final_heap \in MergeInto(TopNHeapNew(cap, TRUE),
                                         SubSeq(heaps, Len(heaps), Len(heaps))) }

\* merge_heaps(heaps, capacity): the set of values it can return
MergeHeaps(heaps, cap) ==
    UNION { { SortResults(vec) : vec \in IntoVec(final_heap) } :
                final_heap \in MergeInto(TopNHeapNew(cap, TRUE), heaps) }

-----------------------------------------------------------------------------
(* parallel_scan and main                                                  *)

\* Variant of MapItem: the Err of scan_directory is dropped without
\* stats.errors += 1
MapItemErrorUncounted(top_n, stats, dir) ==
    CHOOSE ret \in
        { [heap |-> scan.top_n,
           stats |-> scan.stats,
           subdirs |-> scan.subdirs,
           popped |-> scan.popped,
           left_top_n |-> TopNHeapNew(capacity, TRUE), left_stats |-> ScanStatsDefault] :
          scan \in { ScanDirectory(dir, top_n, stats, << >>) } } : TRUE

\* The closure given to map_init, run on one directory with the worker's
\* (top_n, stats): what it returns, the subdirectories it found, and the
\* state it leaves to the worker.
MapItem(top_n, stats, dir) ==
    CHOOSE ret \in
        { [heap |-> scan.top_n,
           stats |-> IF scan.ok THEN scan.stats
                     ELSE [scan.stats EXCEPT !.errors = @ + 1],
           subdirs |-> scan.subdirs,
           popped |-> scan.popped,
           left_top_n |-> TopNHeapNew(capacity, TRUE), left_stats |-> ScanStatsDefault] :
          scan \in { ScanDirectory(dir, top_n, stats, << >>) } } : TRUE

\* Variant of Extend: the assignment `*next_queue = subdirs` in place of extend
ExtendOverwrite(queue, subdirs) == subdirs

\* next_queue.lock().unwrap().extend(subdirs)
Extend(queue, subdirs) == queue \o subdirs

\* One item of the parallel iterator, before a worker has taken it.
Todo == [st |-> "todo", heap |-> TopNHeapNew(capacity, TRUE), stats |-> ScanStatsDefault,
         subdirs |-> << >>]

Running == { i \in DOMAIN task : task[i].st = "run" }

\* Variant of RoundComplete: the level is left as soon as one item is mapped
RoundCompleteAny == \E i \in DOMAIN task : task[i].st = "done"

\* collect() returns once every item of the level has been mapped.
RoundComplete == \A i \in DOMAIN task : task[i].st = "done"

\* Variant of AddStats: files_scanned assigned instead of added
AddStatsOverwrite(global, stats) ==
    [files_scanned |-> stats.files_scanned,
     dirs_scanned  |-> global.dirs_scanned + stats.dirs_scanned,
     errors        |-> global.errors + stats.errors]

\* Variant of AddStats: dirs_scanned assigned instead of added
AddStatsDirsOverwrite(global, stats) ==
    [files_scanned |-> global.files_scanned + stats.files_scanned,
     dirs_scanned  |-> stats.dirs_scanned,
     errors        |-> global.errors + stats.errors]

AddStats(global, stats) ==
    [files_scanned |-> global.files_scanned + stats.files_scanned,
     dirs_scanned  |-> global.dirs_scanned + stats.dirs_scanned,
     errors        |-> global.errors + stats.errors]

\* for (heap, stats) in results { ... }: results come in work_queue order
RECURSIVE CollectFrom(_, _, _)
CollectFrom(i, heaps, global) ==
    IF i > Len(work_queue) THEN [heaps |-> heaps, global |-> global]
    ELSE CollectFrom(i + 1, Append(heaps, task[i].heap),
                     AddStats(global, task[i].stats))

Collected == CollectFrom(1, thread_heaps, global_stats)

RECURSIVE Held(_)
Held(heaps) ==
    IF heaps = << >> THEN 0 ELSE Len(Head(heaps).heap) + Held(Tail(heaps))

\* The order of a listing shows only when an entry of it fails to read and
\* another entry is there to be lost: every other listing is put in name
\* order by the sort of scan_directory before anything is done with it, and
\* is taken in one order.
OrderMatters(p) ==
    /\ \E c \in Children(p) : fs[c].kind = "readerr"
    /\ Cardinality({ c \in Children(p) : fs[c].kind # "absent" }) > 1

Init ==
    /\ \E r \in RootNodes : \E a \in Below(r) : \E b \in Below(r) :
       \E a1 \in Below(a) : \E a2 \in Below(a) :
       \E b3 \in Below(b) : \E b34 \in Below(b3) :
          fs = MkFs(r, a, b, a1, a2, b3, b34)
    /\ read_order \in [Paths -> {"ascending", "descending"}]
    /\ \A p \in Paths : OrderMatters(p) \/ read_order[p] = "descending"
    /\ capacity \in 0..MaxCapacity
    /\ threads \in 1..MaxThreads
    /\ work_queue = << Root >>
    /\ next_queue = << >>
    /\ task = [i \in 1..1 |-> Todo]
    /\ thread_heaps = << >>
    /\ global_stats = ScanStatsDefault
    /\ results = << >>
    /\ pc = "scan"
    /\ exit_code = -1
    /\ printed = FALSE
    /\ round = 1
    /\ scans = [p \in Paths |-> 0]
    /\ deposited = {}
    /\ discarded = 0
    /\ inserted = << >>
    /\ evicted = << >>

\* A free worker takes directory i of the level and scans it.
StartTask(i) ==
    /\ pc = "scan"
    /\ task[i].st = "todo"
    /\ Cardinality(Running) < threads
    /\ \E ret \in { MapItem(task[i].heap, task[i].stats, work_queue[i]) } :
           /\ task' = [task EXCEPT ![i] = [st |-> "run", heap |-> ret.heap,
                                           stats |-> ret.stats,
                                           subdirs |-> ret.subdirs]]
           /\ discarded' = discarded + ret.popped
    /\ scans' = [scans EXCEPT ![work_queue[i]] = @ + 1]
    /\ UNCHANGED << fs, read_order, capacity, threads, work_queue, next_queue, thread_heaps,
                    global_stats, results, pc, exit_code, printed, round,
                    deposited,
                    inserted, evicted >>

\* The process is ended before parallel_scan returns to main, or main panics
\* while it prints: what the process held is gone, what it did to the file
\* system (nothing) and the record of the run stay.
Ended(code) ==
    /\ pc' = "abort"
    /\ exit_code' = code
    /\ work_queue' = << >>
    /\ next_queue' = << >>
    /\ task' = << >>
    /\ thread_heaps' = << >>
    /\ global_stats' = ScanStatsDefault
    /\ UNCHANGED << fs, read_order, capacity, threads, results, printed, round,
                    scans, deposited, discarded, inserted, evicted >>

\* A free worker takes directory i and the init closure of map_init is not
\* granted its TopNHeap: the process ends there, at any level, also while
\* another worker is scanning; nothing is printed.  A capacity that makes
\* with_capacity panic does so at the first call, that for the root.
AbortInit(i) ==
    /\ pc = "scan"
    /\ task[i].st = "todo"
    /\ Cardinality(Running) < threads
    /\ \E granted \in BOOLEAN, code \in {AbortCode, PanicCode} :
          /\ TopNHeapNew(capacity, granted) = AllocAbort
          /\ code = PanicCode => round = 1
          /\ Ended(code)

\* scan_directory has returned for directory i and the heap that replaces the
\* returned one (mem::replace(top_n, TopNHeap::new(capacity))) is not granted:
\* the process ends after the scan, nothing is printed.
AbortReplace(i) ==
    /\ pc = "scan"
    /\ task[i].st = "run"
    /\ \E granted \in BOOLEAN :
          /\ TopNHeapNew(capacity, granted) = AllocAbort
          /\ Ended(AbortCode)

\* The worker appends what it found to next_queue and returns its pair.
FinishTask(i) ==
    /\ pc = "scan"
    /\ task[i].st = "run"
    /\ next_queue' = IF task[i].subdirs # << >>
                     THEN Extend(next_queue, task[i].subdirs)
                     ELSE next_queue
    /\ task' = [task EXCEPT ![i].st = "done"]
    /\ deposited' = deposited \cup { work_queue[i] }
    /\ UNCHANGED << fs, read_order, capacity, threads, work_queue, thread_heaps, global_stats,
                    results, pc, exit_code, printed, round, scans, discarded,
                    inserted, evicted >>

\* End of a level with directories left: collect and move to the next level.
NextRound ==
    /\ pc = "scan"
    /\ RoundComplete
    /\ next_queue # << >>
    /\ thread_heaps' = Collected.heaps
    /\ global_stats' = Collected.global
    /\ work_queue' = next_queue
    /\ next_queue' = << >>
    /\ task' = [i \in 1..Len(next_queue) |-> Todo]
    /\ round' = round + 1
    /\ UNCHANGED << fs, read_order, capacity, threads, results, pc, exit_code, printed,
                    scans, deposited, discarded,
                    inserted, evicted >>

\* End of the last level: collect, merge, return to main, which prints the
\* report and returns.
Finish ==
    /\ pc = "scan"
    /\ RoundComplete
    /\ next_queue = << >>
    /\ thread_heaps' = Collected.heaps
    /\ global_stats' = Collected.global
    /\ work_queue' = << >>
    /\ task' = << >>
    /\ \E merged \in MergeHeaps(Collected.heaps, capacity) :
          /\ results' = merged
          /\ discarded' = discarded + Held(Collected.heaps) - Len(merged)
    /\ pc' = "exit"
    /\ exit_code' = 0
    /\ printed' = TRUE
    /\ UNCHANGED << fs, read_order, capacity, threads, next_queue, round, scans, deposited,
                    inserted, evicted >>

\* End of the last level, and merge_heaps is not granted its final heap: the
\* process ends after every directory was scanned, nothing is printed.
AbortMerge ==
    /\ pc = "scan"
    /\ RoundComplete
    /\ next_queue = << >>
    /\ \E granted \in BOOLEAN :
          /\ TopNHeapNew(capacity, granted) = AllocAbort
          /\ Ended(AbortCode)

\* parallel_scan has returned and standard output cannot be written (a full
\* device, a closed pipe): println! panics, main ends with status 101 and the
\* report is not delivered.
PrintFail ==
    /\ pc = "scan"
    /\ RoundComplete
    /\ next_queue = << >>
    /\ \E merged \in MergeHeaps(Collected.heaps, capacity) : Ended(PanicCode)

Next ==
    \/ \E i \in DOMAIN task : StartTask(i)
    \/ \E i \in DOMAIN task : AbortInit(i)
    \/ \E i \in DOMAIN task : FinishTask(i)
    \/ \E i \in DOMAIN task : AbortReplace(i)
    \/ NextRound
    \/ Finish
    \/ AbortMerge
    \/ PrintFail

Spec == Init /\ [][Next]_vars

\* The runs checked for termination: every tree and pool size of Init, with
\* the least and the greatest capacity.
LiveInit == Init /\ capacity \in {0, MaxCapacity}

\* The pool keeps running: a worker that can take or finish an item does, and
\* the thread that called parallel_scan goes on once collect() has returned.
FairSpec == LiveInit /\ [][Next]_vars /\ WF_vars(Next)

-----------------------------------------------------------------------------
(* One TopNHeap taken by itself: TopNHeap::new(capacity) followed by calls *)
(* of insert, one call a step, as scan_directory makes them on the top_n   *)
(* of a task for the regular files of a directory.                         *)

\* The entries given to the heap
HeapEntries == { FileEntry(s, p) : s \in Sizes, p \in { <<1>>, <<2>>, <<1, 1>> } }

\* seq without the first occurrence of x
RECURSIVE Without(_, _)
Without(seq, x) ==
    IF seq = << >> THEN << >>
    ELSE IF Head(seq) = x THEN Tail(seq)
    ELSE << Head(seq) >> \o Without(Tail(seq), x)

\* history: the entries insert(entry) takes out of self, those of self.heap
\* and entry that are not in the heap afterwards
RECURSIVE Minus(_, _)
Minus(before, after) ==
    IF after = << >> THEN before
    ELSE Minus(Without(before, Head(after)), Tail(after))

Removed(self, entry) == Minus(Append(self.heap, entry), Insert(self, entry).heap)

HeapInit ==
    /\ fs = MkFs(Node("dir", 0, "none"), Absent, Absent, Absent, Absent, Absent, Absent)
    /\ read_order = [p \in Paths |-> "descending"]
    /\ capacity \in 0..MaxCapacity
    /\ threads = 1
    /\ work_queue = << Root >>
    /\ next_queue = << >>
    /\ task = << [Todo EXCEPT !.st = "run"] >>
    /\ thread_heaps = << >>
    /\ global_stats = ScanStatsDefault
    /\ results = << >>
    /\ pc = "insert"
    /\ exit_code = -1
    /\ printed = FALSE
    /\ round = 1
    /\ scans = [p \in Paths |-> 0]
    /\ deposited = {}
    /\ discarded = 0
    /\ inserted = << >>
    /\ evicted = << >>

\* stats.files_scanned += 1; top_n.insert(FileEntry { size, path })
InsertEntry(entry) ==
    /\ pc = "insert"
    /\ Len(inserted) < MaxInserts
    /\ task' = [task EXCEPT ![1].heap = Insert(@, entry),
                            ![1].stats.files_scanned = @ + 1]
    /\ discarded' = discarded + Popped(task[1].heap, entry)
    /\ inserted' = Append(inserted, entry)
    /\ evicted' = Append(evicted, Removed(task[1].heap, entry))
    /\ UNCHANGED << fs, read_order, capacity, threads, work_queue, next_queue, thread_heaps,
                    global_stats, results, pc, exit_code, printed, round, scans,
                    deposited >>

HeapNext == \E entry \in HeapEntries : InsertEntry(entry)

HeapSpec == HeapInit /\ [][HeapNext]_vars

-----------------------------------------------------------------------------
(* What a tree holds, read off the tree itself                             *)

\* q is handed out before p by the listing of their directory
Precedes(q, p) ==
    IF read_order[Parent(p)] = "ascending"
    THEN FileName(q) < FileName(p)
    ELSE FileName(q) > FileName(p)

\* The listing of its directory reaches p: no entry before p fails to read
Yielded(p) ==
    \A q \in Children(Parent(p)) : fs[q].kind = "readerr" => ~Precedes(q, p)

\* Every proper ancestor of p, the root included, is a listable directory,
\* and p and its ancestors are reached by the listings they are in.
Listed(p) ==
    /\ \A k \in 0..(Len(p) - 1) : fs[SubSeq(p, 1, k)].kind = "dir"
    /\ \A k \in 1..Len(p) : Yielded(SubSeq(p, 1, k))

\* The regular files / directories a scan can come across.
DiscoveredFiles == { p \in Paths \ {Root} : fs[p].kind = "file" /\ Listed(p) }
DiscoveredDirs == { p \in Paths \ {Root} : fs[p].kind \in {"dir", "baddir"} /\ Listed(p) }

AllRegularFiles == { p \in Paths : fs[p].kind = "file" }

EntryOf(p) == FileEntry(fs[p].size, p)

\* Nothing in the tree fails: every directory can be listed, every entry read
\* and classified.
Clean == \A p \in Paths : fs[p].kind \notin {"baddir", "staterr", "readerr", "nonutf8"}

Range(seq) == { seq[i] : i \in DOMAIN seq }

\* e ranks above f in the order "size descending, then path ascending"
RanksAbove(e, f) ==
    \/ e.size > f.size
    \/ e.size = f.size /\ PathCmp(e.path, f.path) < 0

\* The first n of the entries E in the order "size descending, path ascending"
TopRanked(E, n) ==
    LET m == IF Cardinality(E) < n THEN Cardinality(E) ELSE n
    IN  [i \in 1..m |->
            CHOOSE e \in E : Cardinality({ f \in E : RanksAbove(f, e) }) = i - 1]

\* A single-threaded scan: every discovered file, in path order, into one
\* TopNHeap, then the final sort.
RECURSIVE InsertInPathOrder(_, _)
InsertInPathOrder(heap, S) ==
    IF S = {} THEN heap
    ELSE LET p == CHOOSE x \in S : \A y \in S : PathCmp(x, y) <= 0
         IN  InsertInPathOrder(Insert(heap, EntryOf(p)), S \ {p})

SequentialScan ==
    SortResults(InsertInPathOrder(TopNHeapNew(capacity, TRUE), DiscoveredFiles).heap)

\* Every TopNHeap of the current state
AllHeaps == Range(thread_heaps) \cup { task[i].heap : i \in DOMAIN task }

-----------------------------------------------------------------------------
(* Claims                                                                  *)

\* C1: for a given tree and capacity the ranked list returned by
\* parallel_scan is the same for every pool size and every interleaving of
\* the directory-scan tasks: it is the list a single-threaded scan with one
\* heap produces from the discovered files.
C1_Deterministic == pc = "exit" => results = SequentialScan

\* C1 witness: a finished run with two workers in which the task of /b
\* deposited its subdirectory before the task of /a did (so /b/3.txt is
\* scanned and collected ahead of /a's subdirectories), with a file of
\* /b/3.txt ranked and more files than capacity.
C1_Witness ==
    /\ pc = "exit"
    /\ threads = 2
    /\ fs[<<1, 1>>].kind = "dir"
    /\ fs[<<2, 3, 4>>].kind = "file"
    /\ Len(thread_heaps) >= 5
    /\ thread_heaps[4].heap = << EntryOf(<<2, 3, 4>>) >>
    /\ Cardinality(DiscoveredFiles) > capacity
    /\ EntryOf(<<2, 3, 4>>) \in Range(results)

\* C2: with at least capacity regular files and nothing unreadable, the
\* output is exactly the first capacity files in the order "size descending,
\* then path ascending"; on the tree /a/1.txt = 500, /a/2.txt = 500,
\* /b/3.txt = 1000 with capacity 2 it is [{1000, /b/3.txt}, {500, /a/1.txt}].
C2_TopN ==
    (pc = "exit" /\ Clean /\ Cardinality(AllRegularFiles) >= capacity)
        => results = TopRanked({ EntryOf(p) : p \in AllRegularFiles }, capacity)

\* C3: with fewer than capacity regular files and nothing unreadable, the
\* output holds every regular file of the tree exactly once.
C3_AllKept ==
    (pc = "exit" /\ Clean /\ Cardinality(AllRegularFiles) < capacity)
        => /\ Range(results) = { EntryOf(p) : p \in AllRegularFiles }
           /\ Len(results) = Cardinality(AllRegularFiles)

\* C3 witness: a finished scan of a readable tree whose two files lie in
\* directories of different levels, with capacity 3.
C3_Witness ==
    /\ pc = "exit"
    /\ Clean
    /\ capacity = 3
    /\ AllRegularFiles = { <<1, 2>>, <<2, 3, 4>> }
    /\ Len(results) = 2
    /\ round = 3

\* C4: the returned list is never longer than capacity and is strictly
\* ordered: each entry is larger than the next, or of equal size with a
\* smaller path; no entry occurs twice.
C4_Ranked ==
    pc = "exit" =>
        /\ Len(results) <= capacity
        /\ \A i \in 1..(Len(results) - 1) : RanksAbove(results[i], results[i + 1])
        /\ \A i, j \in DOMAIN results : i # j => results[i] # results[j]

\* C4 witness: a finished scan that returned capacity entries, two of them of
\* equal size, after the merge discarded at least one.
C4_Witness ==
    /\ pc = "exit"
    /\ Len(results) = capacity
    /\ Cardinality(DiscoveredFiles) > capacity
    /\ \E i \in 1..(Len(results) - 1) : results[i].size = results[i + 1].size

\* C5: with capacity 0 every TopNHeap is empty after every insert, the run
\* ends without error with an empty list, and files_scanned is the number of
\* regular files classified.
C5_ZeroCapacity ==
    capacity = 0 =>
        /\ \A h \in AllHeaps : h.heap = << >>
        /\ results = << >>
        /\ pc = "exit" =>
              /\ exit_code = 0
              /\ global_stats.files_scanned = Cardinality(DiscoveredFiles)

\* C5 witness: a finished scan with capacity 0 that classified three files.
C5_Witness ==
    /\ pc = "exit"
    /\ capacity = 0
    /\ global_stats.files_scanned = 3
    /\ results = << >>

\* C6 as stated: at termination files_scanned plus the number of entries the
\* selectors discarded equals the number of regular files in the tree (taken
\* here on the trees where nothing is unreadable, so that every regular file
\* of the tree is within reach of the scan).
C6_ScannedPlusDiscarded ==
    (pc = "exit" /\ Clean) =>
        global_stats.files_scanned + discarded = Cardinality(AllRegularFiles)

\* C6 amended: at termination files_scanned alone is the number of regular
\* files listed and classified, each seen by exactly one scan of its
\* directory; the discarded entries are among them, so that files_scanned is
\* the length of the ranked list plus the number of entries discarded.
C6_ScannedOnce ==
    pc = "exit" =>
        /\ global_stats.files_scanned = Cardinality(DiscoveredFiles)
        /\ \A p \in DiscoveredFiles : scans[Parent(p)] = 1
        /\ global_stats.files_scanned = Len(results) + discarded

\* C6 witness: a finished scan of three files in which the selectors of the
\* tasks and of the merge both discarded entries.
C6_Witness ==
    /\ pc = "exit"
    /\ global_stats.files_scanned = 3
    /\ capacity = 1
    /\ discarded = 2
    /\ Held(thread_heaps) = 2
    /\ Len(results) = 1

Symlinks == { p \in Paths : fs[p].kind = "symlink" }

HeldPaths == UNION { { h.heap[i].path : i \in DOMAIN h.heap } : h \in AllHeaps }

QueuedPaths ==
    Range(work_queue) \cup Range(next_queue)
        \cup UNION { Range(task[i].subdirs) : i \in DOMAIN task }

\* C7: a symbolic link is classified as Other whatever it points to: it is
\* never held by a selector, never queued for a level, never scanned, never
\* in the ranked list, and the counters of a task count only the regular
\* files and the directories among the children of its directory.
C7_SymlinkIsOther ==
    /\ \A p \in Symlinks :
          /\ p \notin HeldPaths
          /\ p \notin QueuedPaths
          /\ p \notin { results[i].path : i \in DOMAIN results }
          /\ scans[p] = 0
          /\ ClassifyEntry(Parent(p), FileName(p)) = Other
    /\ \A i \in DOMAIN task :
          (task[i].st # "todo" /\ fs[work_queue[i]].kind = "dir") =>
              /\ task[i].stats.files_scanned =
                    Cardinality({ c \in Children(work_queue[i]) :
                                     fs[c].kind = "file" /\ Yielded(c) })
              /\ task[i].stats.dirs_scanned =
                    Cardinality({ c \in Children(work_queue[i]) :
                                     fs[c].kind \in {"dir", "baddir"} /\ Yielded(c) })
    /\ pc = "exit" =>
          /\ global_stats.files_scanned = Cardinality(DiscoveredFiles)
          /\ global_stats.dirs_scanned = Cardinality(DiscoveredDirs)

\* C7 witness: a finished scan of a tree in which /a holds a link to a file
\* of size 1000 next to a file of size 500, and /b holds a link to a
\* directory; the ranked list has room and holds the small file only.
C7_Witness ==
    /\ pc = "exit"
    /\ capacity = 2
    /\ fs[<<1, 1>>] = Node("symlink", 1000, "file")
    /\ fs[<<1, 2>>] = Node("file", 500, "none")
    /\ fs[<<2, 3>>] = Node("symlink", 0, "dir")
    /\ results = << EntryOf(<<1, 2>>) >>
    /\ global_stats = [files_scanned |-> 1, dirs_scanned |-> 2, errors |-> 0]

\* Discovered subdirectories whose listing fails
FailedDirs == { p \in DiscoveredDirs : fs[p].kind = "baddir" }

\* The part of C8 about the traversal: each failed subdirectory counts in
\* errors, every discovered directory (failed or not) is scanned once, and
\* nothing below a failed directory is scanned, queued or held.
ErrorIsolated ==
    /\ global_stats.errors >= Cardinality(FailedDirs)
    /\ \A p \in DiscoveredDirs : scans[p] = 1
    /\ \A p \in Paths \ {Root} :
          fs[Parent(p)].kind = "baddir" => scans[p] = 0 /\ p \notin HeldPaths
    /\ Range(results) \subseteq { EntryOf(p) : p \in DiscoveredFiles }

\* C8: when the listing of a subdirectory fails, errors is incremented, the
\* sibling directories and the directories of later levels are still
\* scanned, the children of the failed directory are never discovered, and
\* the ranked list is exactly the first capacity, in the order "size
\* descending, then path ascending", of the files in the directories that
\* could be listed.
C8_ErrorIsolation ==
    (pc = "exit" /\ fs[Root].kind = "dir" /\ FailedDirs # {}) =>
        /\ ErrorIsolated
        /\ results = TopRanked({ EntryOf(p) : p \in DiscoveredFiles }, capacity)

\* C8, the traversal part alone, which holds.
C8_TraversalContinues ==
    (pc = "exit" /\ fs[Root].kind = "dir" /\ FailedDirs # {}) => ErrorIsolated

\* C9: a root that cannot be listed ends the run with a non-zero exit status
\* before anything is printed; every other run ends with exit status 0.
C9_RootFatal ==
    pc = "exit" =>
        IF ReadDirOk(Root)
        THEN exit_code = 0
        ELSE exit_code # 0 /\ ~printed

\* C9, what the code does: every run that returns from parallel_scan ends
\* with exit status 0 and a printed report; on a root that cannot be listed
\* the list is empty and errors is 1. The runs that end otherwise are those
\* ended by a heap that cannot be allocated or by a standard output that
\* cannot be written, whatever the root is: status 134 or 101, no report.
C9_AlwaysZero ==
    /\ pc = "abort" => exit_code \in {AbortCode, PanicCode} /\ ~printed
    /\ pc = "exit" =>
        /\ exit_code = 0
        /\ printed
        /\ ~ReadDirOk(Root) =>
              /\ results = << >>
              /\ global_stats = [files_scanned |-> 0, dirs_scanned |-> 0, errors |-> 1]

\* C10: rounds are separated by a hard barrier.  (a) While round k runs, the
\* frontier lists, each once, exactly the discovered directories at depth k
\* (k - 1 below the root).  (b) No directory has been scanned, or is being
\* scanned, unless every discovered directory nearer the root has been
\* scanned once and has deposited its subdirectories and returned its heap
\* and stats; and nothing deeper than the current round has been scanned.
\* (c) The heaps held by thread_heaps are those of every directory of the
\* rounds before the current one (of every round, once the loop has ended),
\* one each: the pairs of a round are collected only behind the barrier.
\* A process that was ended holds nothing, so (c) speaks of the others.
C10_Barrier ==
    /\ pc = "scan" =>
          /\ Range(work_queue) =
                { p \in DiscoveredDirs \cup {Root} : Len(p) = round - 1 }
          /\ Len(work_queue) = Cardinality(Range(work_queue))
    /\ \A p \in Paths :
          scans[p] > 0 =>
              /\ Len(p) <= round - 1
              /\ \A q \in DiscoveredDirs \cup {Root} :
                    Len(q) < Len(p) => scans[q] = 1 /\ q \in deposited
    /\ pc # "abort" =>
          Len(thread_heaps) =
              Cardinality({ q \in DiscoveredDirs \cup {Root} :
                              Len(q) < round - (IF pc = "exit" THEN 0 ELSE 1) })

\* C10 witness: with two workers, a directory of level 3 is being scanned
\* while one of its level is still waiting; /a and /b, the two directories of
\* level 2, have both deposited.
C10_Witness ==
    /\ pc = "scan"
    /\ round = 3
    /\ threads = 2
    /\ Len(work_queue) = 3
    /\ \E i, j \in DOMAIN task : task[i].st = "run" /\ task[j].st = "todo"
    /\ { <<1>>, <<2>> } \subseteq deposited
    /\ Len(thread_heaps) = 3

\* Every directory the scan can come across, the root included
ScannableDirs == DiscoveredDirs \cup {Root}

\* The run has ended with an empty frontier and every discovered directory,
\* the root included, has been scanned once and has deposited its results.
ScannedToCompletion ==
    /\ pc = "exit"
    /\ work_queue = << >>
    /\ \A p \in ScannableDirs : scans[p] = 1 /\ p \in deposited

\* C11: on every tree parallel_scan terminates under fair scheduling of the
\* workers: the frontier becomes empty and the loop ends, and by then every
\* discovered directory has been scanned (the whole tree is scanned to
\* completion, no early exit).
C11_ScannedToCompletion == <>ScannedToCompletion

\* C11, what the code does: every fair run ends, either with the whole tree
\* scanned or ended by a TopNHeap::new that was not granted (in the init
\* closure, after the scan of a directory, in merge_heaps) or, the tree
\* scanned, by a report that cannot be written.
C11_Terminates == <>(ScannedToCompletion \/ pc = "abort")

\* C11 witness: a finished run over four levels, all seven paths of the tree
\* being directories that were scanned.
C11_Witness ==
    /\ pc = "exit"
    /\ round = 4
    /\ work_queue = << >>
    /\ Cardinality(ScannableDirs) = 7
    /\ \A p \in ScannableDirs : scans[p] = 1

-----------------------------------------------------------------------------
(* merge_heaps as a function of its input                                  *)

\* The entries held by the heaps given to merge_heaps
HeldEntries(heaps) == UNION { Range(heaps[i].heap) : i \in DOMAIN heaps }

\* Every order in which the indices S can be visited
RECURSIVE IndexOrders(_)
IndexOrders(S) ==
    IF S = {} THEN { << >> }
    ELSE UNION { { << x >> \o o : o \in IndexOrders(S \ {x}) } : x \in S }

\* Every permutation of the input heaps
HeapOrders(heaps) ==
    { [i \in DOMAIN heaps |-> heaps[o[i]]] : o \in IndexOrders(DOMAIN heaps) }

\* The n greatest entries of E under FileEntry::cmp
GreatestByCmp(E, n) ==
    { e \in E : Cardinality({ f \in E : FileEntryCmp(f, e) > 0 }) < n }

\* C12: merge_heaps returns the same list for every permutation of its input
\* heaps and every order into_vec yields; that list is the first capacity
\* entries, in the order "size descending, then path ascending", of all the
\* entries the input heaps hold, and it is the list one heap fed with every
\* discovered file gives. On the heaps [{500, /a/1.txt}], [{500, /a/2.txt}]
\* with capacity 1 the list is [{500, /a/1.txt}].
C12_MergeIsTopRanked ==
    pc = "exit" =>
        /\ \A perm \in HeapOrders(thread_heaps) :
              MergeHeaps(perm, capacity) =
                  { TopRanked(HeldEntries(thread_heaps), capacity) }
        /\ results = SequentialScan

\* What merge_heaps does satisfy: for every permutation of the input heaps and
\* every order of into_vec it returns one and the same list, made of the
\* capacity greatest held entries under FileEntry::cmp, which is also the
\* list of the single-heap scan.
C12_MergeInvariant ==
    pc = "exit" =>
        /\ \A perm \in HeapOrders(thread_heaps) :
              MergeHeaps(perm, capacity) = { results }
        /\ Range(results) = GreatestByCmp(HeldEntries(thread_heaps), capacity)
        /\ results = SequentialScan

-----------------------------------------------------------------------------
(* TopNHeap::insert, call by call                                          *)

\* The heap under the sequence of calls
TopN == task[1].heap

Min(a, b) == IF a < b THEN a ELSE b

\* C13: after k calls of insert on a heap made by TopNHeap::new(capacity) the
\* heap holds exactly min(capacity, k) entries, never more than capacity, and
\* every call removed at most one entry.
C13_HeapSize ==
    pc = "insert" =>
        /\ Len(TopN.heap) = Min(capacity, Len(inserted))
        /\ Len(TopN.heap) <= capacity
        /\ Len(evicted) = Len(inserted)
        /\ \A k \in DOMAIN evicted : Len(evicted[k]) <= 1

\* C13 witness: more calls than capacity on a heap of capacity 2, the heap
\* full and the last two calls having removed one entry each.
C13_Witness ==
    /\ pc = "insert"
    /\ capacity = 2
    /\ Len(inserted) = 4
    /\ Len(TopN.heap) = 2
    /\ Len(evicted[3]) = 1
    /\ Len(evicted[4]) = 1

\* The heap as it was when call k of insert was made
HeapBefore(k) == InsertAll(TopNHeapNew(capacity, TRUE), SubSeq(inserted, 1, k - 1)).heap

\* What call k chose among: the held entries and the entry it was given
Candidates(k) == Range(HeapBefore(k)) \cup { inserted[k] }

\* Every entry removed so far
AllEvicted == UNION { Range(evicted[k]) : k \in DOMAIN evicted }

\* C14: the entry an insert removes is the worst-ranked of the held entries
\* and the new one in the order "size descending, path ascending" (smallest
\* size, and of that size the greatest path), so that every held entry ranks
\* at least as high as every removed one. After insert {500, /a/1.txt} and
\* insert {500, /a/2.txt} on a heap of capacity 1 the heap holds
\* {500, /a/1.txt}.
C14_EvictsWorstRanked ==
    pc = "insert" =>
        /\ \A k \in DOMAIN evicted : \A x \in Range(evicted[k]) :
              \A y \in Candidates(k) : ~RanksAbove(x, y)
        /\ \A h \in Range(TopN.heap) : \A x \in AllEvicted : ~RanksAbove(x, h)

\* What insert does satisfy: the entry it removes is the least of the
\* candidates under FileEntry::cmp (smallest size, and of that size the
\* smallest path), and no removed entry is greater under FileEntry::cmp than
\* a held one.
C14_EvictsLeastByCmp ==
    pc = "insert" =>
        /\ \A k \in DOMAIN evicted : \A x \in Range(evicted[k]) :
              \A y \in Candidates(k) : FileEntryCmp(x, y) <= 0
        /\ \A h \in Range(TopN.heap) : \A x \in AllEvicted : FileEntryCmp(x, h) <= 0

-----------------------------------------------------------------------------
(* The pairs a level hands to the merge                                    *)

\* The (heap, stats) pairs the collect loop takes from the level just mapped
PairsOfRound == Len(Collected.heaps) - Len(thread_heaps)

\* C15: a worker uses one (heap, stats) pair for all the directories of the
\* level it maps, so a level hands at most as many pairs to the merge as the
\* pool has workers, however many directories the level holds.
C15_PairsBoundedByWorkers ==
    (pc = "scan" /\ RoundComplete) => PairsOfRound <= threads

\* What the code does: the closure returns the pair after every directory
\* (mem::replace / mem::take) and starts the next one on a fresh pair, so a
\* level hands over one pair per directory and the merge gets as many heaps
\* as directories were scanned.
C15_OnePairPerDirectory ==
    /\ (pc = "scan" /\ RoundComplete) => PairsOfRound = Len(work_queue)
    /\ \A i \in DOMAIN task : task[i].st = "todo" => task[i].heap.heap = << >>
    /\ pc = "exit" => Len(thread_heaps) = Cardinality(ScannableDirs)

-----------------------------------------------------------------------------
(* The frontier                                                            *)

\* The directories of the tree a scan comes across at level r (the root is
\* level 1): entries lstat reports as directories, inside listable directories
DirsOfLevel(r) == { p \in ScannableDirs : Len(p) = r - 1 }

\* seq holds every element of S once and nothing else
IsListingOf(seq, S) == Range(seq) = S /\ Len(seq) = Cardinality(S)

\* The subdirectories the finished tasks of the level have appended
Appended == { i \in DOMAIN task : task[i].st = "done" }

\* C16: whatever the order of the appends to next_queue, the frontier of a
\* level is exactly the children classified as Directory in the level before,
\* each once; next_queue holds exactly what the finished tasks found; and no
\* directory is scanned twice, every discovered one being scanned once by the
\* end of the run.
C16_FrontierExact ==
    /\ pc = "scan" => IsListingOf(work_queue, DirsOfLevel(round))
    /\ pc = "scan" =>
          IsListingOf(next_queue,
                      { p \in DirsOfLevel(round + 1) :
                            \E i \in Appended : work_queue[i] = Parent(p) })
    /\ \A p \in Paths : scans[p] <= 1
    /\ \A p \in Paths : scans[p] = 1 => p \in ScannableDirs
    /\ pc = "exit" => \A p \in ScannableDirs : scans[p] = 1

\* C16 witness: two workers scanned /a and /b at once and /b appended its
\* subdirectory before /a appended its two; the third level holds the three.
C16_Witness ==
    /\ pc = "scan"
    /\ threads = 2
    /\ round = 3
    /\ work_queue = << <<2, 3>>, <<1, 1>>, <<1, 2>> >>
    /\ scans[<<2, 3>>] = 1

-----------------------------------------------------------------------------
(* One directory                                                           *)

\* The children of directory d of the given kinds
KidsOf(d, kinds) == { c \in Children(d) : fs[c].kind \in kinds }

\* The items of the level whose scan_directory call has been made
Scanned == { i \in DOMAIN task : task[i].st \in {"run", "done"} }

\* C17: in a directory that can be listed every child is accounted for once:
\* a child that cannot be read, has a name that is not UTF-8 or cannot be
\* classified adds one to errors and nothing else, every other child is
\* still classified (a regular file counted and offered to the heap, a
\* directory counted and listed for the next level), and a child classified
\* as Other (a symbolic link) changes no counter. In /a = {1.txt: a file,
\* 2.txt: fails to read}, listed 2.txt first, the scan of /a counts one
\* error and one file.
C17_PerChildAccounting ==
    \A i \in Scanned :
        LET d == work_queue[i]
            files == KidsOf(d, {"file"})
            dirs == KidsOf(d, {"dir", "baddir"})
            failing == KidsOf(d, {"staterr", "readerr", "nonutf8"})
        IN  (pc = "scan" /\ ReadDirOk(d)) =>
               /\ task[i].stats.errors = Cardinality(failing)
               /\ task[i].stats.files_scanned = Cardinality(files)
               /\ task[i].stats.dirs_scanned = Cardinality(dirs)
               /\ IsListingOf(task[i].subdirs, dirs)
               /\ Range(task[i].heap.heap) \subseteq { EntryOf(c) : c \in files }
               /\ Len(task[i].heap.heap) = Min(capacity, Cardinality(files))

\* The children of d of the given kinds that its listing reaches
YieldedKidsOf(d, kinds) == { c \in KidsOf(d, kinds) : Yielded(c) }

\* What scan_directory does satisfy: the accounting of C17 for the children
\* the listing hands out. An entry that fails to read counts one error and
\* ends the listing, so that the children after it are not seen at all; a
\* name that is not UTF-8 or a failed classification skips that child only.
C17_YieldedAccounting ==
    \A i \in Scanned :
        LET d == work_queue[i]
            files == YieldedKidsOf(d, {"file"})
            dirs == YieldedKidsOf(d, {"dir", "baddir"})
            failing == YieldedKidsOf(d, {"staterr", "readerr", "nonutf8"})
        IN  (pc = "scan" /\ ReadDirOk(d)) =>
               /\ task[i].stats.errors = Cardinality(failing)
               /\ task[i].stats.files_scanned = Cardinality(files)
               /\ task[i].stats.dirs_scanned = Cardinality(dirs)
               /\ IsListingOf(task[i].subdirs, dirs)
               /\ Range(task[i].heap.heap) \subseteq { EntryOf(c) : c \in files }
               /\ Len(task[i].heap.heap) = Min(capacity, Cardinality(files))
               /\ KidsOf(d, {"readerr"}) = {} =>
                     YieldedKidsOf(d, {"file", "dir", "baddir", "staterr", "nonutf8"})
                        = KidsOf(d, {"file", "dir", "baddir", "staterr", "nonutf8"})

-----------------------------------------------------------------------------
(* The counters at the end of the run                                      *)

\* The number of scan_directory calls made so far
RECURSIVE SumOver(_, _)
SumOver(f, S) ==
    IF S = {} THEN 0
    ELSE LET x == CHOOSE y \in S : TRUE IN f[x] + SumOver(f, S \ {x})

Invocations == SumOver(scans, Paths)

\* The listed entries that count one error each, and the directories whose
\* own listing fails
FailingEntries ==
    { p \in Paths \ {Root} :
        Listed(p) /\ fs[p].kind \in {"staterr", "readerr", "nonutf8"} }

UnlistableDirs == { p \in ScannableDirs : fs[p].kind = "baddir" }

\* C18: at the end of the run dirs_scanned is the number of children
\* classified as Directory, which is the number of scan_directory calls less
\* the one on the root; a subdirectory that cannot be listed is counted in
\* dirs_scanned (by its parent) and once in errors (by its own task).
C18_DirsScanned ==
    pc = "exit" =>
        /\ global_stats.dirs_scanned = Cardinality(DiscoveredDirs)
        /\ global_stats.dirs_scanned = Invocations - 1
        /\ global_stats.errors =
              Cardinality(FailingEntries) + Cardinality(UnlistableDirs)

\* C18 witness: /a cannot be listed, /b can and holds a subdirectory; the run
\* made four scan_directory calls and ended with dirs_scanned = 3, errors = 1.
C18_Witness ==
    /\ pc = "exit"
    /\ fs[<<1>>].kind = "baddir"
    /\ fs[<<2>>].kind = "dir"
    /\ fs[<<2, 3>>].kind = "dir"
    /\ fs[<<2, 3, 4>>].kind = "file"
    /\ Invocations = 4
    /\ global_stats.dirs_scanned = 3
    /\ global_stats.errors = 1

-----------------------------------------------------------------------------
(* A directory that cannot be opened                                       *)

\* The TopNHeaps, stats and lists of paths of the current state, as
\* arguments a caller may hold when it calls scan_directory
SomeStats == { global_stats } \cup { task[i].stats : i \in DOMAIN task }

SomeSubdirs == { next_queue, work_queue } \cup { task[i].subdirs : i \in DOMAIN task }

\* C19: when scan_directory returns Err (read_dir failed) it has changed
\* neither the heap nor the stats nor the list of subdirectories it was
\* given, whatever they held; the task of such a directory returns an empty
\* heap, no subdirectory and the stats {0, 0, 1}: the one error the caller
\* adds.
C19_ErrLeavesArguments ==
    pc = "scan" =>
        \A i \in DOMAIN task :
            fs[work_queue[i]].kind = "baddir" =>
                /\ \A h \in AllHeaps : \A st \in SomeStats : \A sd \in SomeSubdirs :
                      ScanDirectory(work_queue[i], h, st, sd) =
                          [top_n |-> h, stats |-> st, subdirs |-> sd,
                           popped |-> 0, ok |-> FALSE]
                /\ i \in Scanned =>
                      /\ task[i].heap = TopNHeapNew(capacity, TRUE)
                      /\ task[i].subdirs = << >>
                      /\ task[i].stats =
                            [files_scanned |-> 0, dirs_scanned |-> 0, errors |-> 1]

\* C19 witness: /a cannot be listed although it holds a regular file, its
\* task has returned; the task of /b, scanned in the same level, holds a
\* file in its heap.
C19_Witness ==
    /\ pc = "scan"
    /\ capacity > 0
    /\ work_queue = << <<1>>, <<2>> >>
    /\ fs[<<1>>].kind = "baddir"
    /\ fs[<<1, 1>>].kind = "file"
    /\ task[1].st = "done"
    /\ task[1].stats.errors = 1
    /\ task[2].st = "done"
    /\ task[2].heap.heap # << >>

\* C20: at the end of the run the ranked list has min(capacity, files_scanned)
\* entries, whatever the tree, the entries and directories that failed, and
\* the heaps the files were spread over.
C20_ResultLength ==
    pc = "exit" => Len(results) = Min(capacity, global_stats.files_scanned)

\* C20 witness: /a holds a regular file and an entry that cannot be
\* classified, /b holds a regular file; with capacity 1 the two files went to
\* two heaps, two were counted and one is listed.
C20_Witness ==
    /\ pc = "exit"
    /\ capacity = 1
    /\ fs[<<1, 1>>].kind = "file"
    /\ fs[<<1, 2>>].kind = "staterr"
    /\ fs[<<2, 3>>].kind = "file"
    /\ global_stats.files_scanned = 2
    /\ global_stats.errors = 1
    /\ Len(results) = 1
    /\ Cardinality({ i \in DOMAIN thread_heaps : thread_heaps[i].heap # << >> }) = 2

====
